---------------------------- MODULE Spec2Model ----------------------------
(***************************************************************************)
(* A model of the Discord channel summarizer bot: the OpenAI variant       *)
(* (src/bot.py) and the Deepseek variant (src/unnamed/part_000).           *)
(*                                                                         *)
(* Texts are sequences of one-character strings, so that the string and    *)
(* regular-expression operations of the code (lower, strip, split,         *)
(* replace, re.search) are computed the way Python computes them.          *)
(* Python's None is the empty sequence <<>>; a present value x is <<x>>.   *)
(***************************************************************************)
EXTENDS Integers, Sequences, FiniteSets, TLC

VARIABLES
    variant,    \* which source file runs: "openai" (bot.py) or "deepseek" (part_000)
    content,    \* message.content, the text of the inbound message
    parsed,     \* the dict returned by parse_user_request, <<>> before the call
    summary,    \* the text returned by the summarizer, given to the embed code
    sizeLimit,  \* the length above which a summary is split (MAX_EMBED_LENGTH)
    chunks,     \* the descriptions of the embeds built from summary, in order
    guilds,     \* bot.guilds: the servers the bot is in, with their channels
    author,     \* the id of the requesting user (message.author.id, user_id)
    query,      \* the channel reference given to a resolver called on its own
    channel,    \* the channel a resolver returned, None if it returned None
    is_dm,      \* whether message.channel is a DMChannel
    run,        \* the state of the running on_message handler
    shadow,     \* a second run of the same handler on the platform without the
                \* channels the requester may not read (None when not in use)
    pc          \* position of a function called on its own

parserVars == <<variant, content, parsed>>
chunkerVars == <<summary, sizeLimit, chunks>>
resolverVars == <<guilds, author, query, channel>>
handlerVars == <<is_dm, run, shadow>>
vars == <<variant, content, parsed, summary, sizeLimit, chunks,
          guilds, author, query, channel, is_dm, run, shadow, pc>>

Variants == {"openai", "deepseek"}

None == <<>>
Some(x) == <<x>>

(***************************************************************************)
(* Bounds of the model.                                                    *)
(***************************************************************************)
\* Most pieces concatenated into one request text of the parser's inputs.
MaxPieces == 4
\* Longest text given to the embed-splitting code on its own.
MaxTextLen == 9
\* Largest size limit the embed-splitting code is tried with on its own.
MaxSizeLimit == 8
\* Number of servers the bot is in.
NumGuilds == 2
\* Most text channels, over all servers, when a resolver is called on its own.
MaxChannels == 2
\* Most text channels, over all servers, when on_message runs.
MaxRunChannels == 1
\* Most messages the platform yields for one history fetch.
MaxHistory == 2
\* the longest text the embed-building code is run on by itself
MaxRenderLen == 6
\* by how much the longest text of the language model exceeds the embed size limit
LongExcess == 2

(***************************************************************************)
(* Program constants.                                                      *)
(***************************************************************************)
MAX_MESSAGES == 500
\* "if count >= 5" in the Deepseek parse_user_request
MIN_COUNT == 5

(***************************************************************************)
(* Python string operations.                                               *)
(***************************************************************************)
Min(S) == CHOOSE x \in S : \A y \in S : x <= y
Max(S) == CHOOSE x \in S : \A y \in S : x >= y

Digits == <<"0", "1", "2", "3", "4", "5", "6", "7", "8", "9">>
Uppers == <<"A", "B", "C", "D", "E", "F", "G", "H", "I", "J", "K", "L", "M",
            "N", "O", "P", "Q", "R", "S", "T", "U", "V", "W", "X", "Y", "Z">>
Lowers == <<"a", "b", "c", "d", "e", "f", "g", "h", "i", "j", "k", "l", "m",
            "n", "o", "p", "q", "r", "s", "t", "u", "v", "w", "x", "y", "z">>
Range(f) == {f[i] : i \in DOMAIN f}

\* \s of the regular expressions, and the characters str.strip() removes
IsSpace(c) == c \in {" ", "\n", "\t"}

\* str.lower(), one character
LowerChar(c) ==
    IF c \in Range(Uppers)
    THEN Lowers[CHOOSE i \in DOMAIN Uppers : Uppers[i] = c]
    ELSE c

\* str.lower()
Lower(s) == IF s = <<>> THEN <<>> ELSE [i \in 1..Len(s) |-> LowerChar(s[i])]

\* str.strip()
Strip(s) ==
    LET keep == {i \in 1..Len(s) : ~IsSpace(s[i])}
    IN  IF keep = {} THEN <<>> ELSE SubSeq(s, Min(keep), Max(keep))

\* str.lstrip('#')
LStripHash(s) ==
    LET keep == {i \in 1..Len(s) : s[i] # "#"}
    IN  IF keep = {} THEN <<>> ELSE SubSeq(s, Min(keep), Len(s))

\* s[i:] in Python, with i a 1-based position here
From(s, i) == SubSeq(s, i, Len(s))

\* whether sub occurs in s at position i
OccursAt(s, sub, i) ==
    /\ i >= 1
    /\ i + Len(sub) - 1 <= Len(s)
    /\ SubSeq(s, i, i + Len(sub) - 1) = sub

\* the positions at which sub occurs in s
Occurrences(s, sub) == {i \in 1..Len(s) : OccursAt(s, sub, i)}

\* "sub in s" (sub is never empty in this program)
Contains(s, sub) == Occurrences(s, sub) # {}

\* s.startswith(prefix)
StartsWith(s, prefix) == OccursAt(s, prefix, 1)

\* int(ds) for a run of decimal digits
RECURSIVE ToInt(_)
ToInt(ds) ==
    IF ds = <<>> THEN 0
    ELSE 10 * ToInt(SubSeq(ds, 1, Len(ds) - 1))
         + (CHOOSE v \in 0..9 : Digits[v + 1] = ds[Len(ds)])

\* s.replace(old, new): every occurrence, left to right, without overlap
RECURSIVE Replace(_, _, _)
Replace(s, old, new) ==
    IF Occurrences(s, old) = {} THEN s
    ELSE LET i == Min(Occurrences(s, old))
         IN  SubSeq(s, 1, i - 1) \o new \o Replace(From(s, i + Len(old)), old, new)

\* s.split(sep)[-1]: the text after the last occurrence of sep (s itself if none)
AfterLast(s, sep) ==
    IF Occurrences(s, sep) = {} THEN s
    ELSE From(s, Max(Occurrences(s, sep)) + Len(sep))

\* s.split(): the whitespace-separated words of s, in order
RECURSIVE Words(_)
Words(s) ==
    LET starts == {i \in 1..Len(s) : ~IsSpace(s[i])}
    IN  IF starts = {} THEN <<>>
        ELSE LET b == Min(starts)
                 stops == {j \in b..Len(s) : IsSpace(s[j])}
                 e == IF stops = {} THEN Len(s) ELSE Min(stops) - 1
             IN  <<SubSeq(s, b, e)>> \o Words(From(s, e + 1))

\* the length of the longest run of characters of the class S that starts at i
RunLen(s, i, S) ==
    LET stops == {j \in i..Len(s) : s[j] \notin S}
    IN  IF i > Len(s) THEN 0
        ELSE IF stops = {} THEN Len(s) - i + 1 ELSE Min(stops) - i

DigitSet == Range(Digits)
SpaceSet == {" ", "\n", "\t"}
WordSet == Range(Digits) \cup Range(Uppers) \cup Range(Lowers) \cup {"_", "-"}

\* Python truthiness of an optional integer: None and 0 are falsy
Truthy(opt) == opt # None /\ opt[1] # 0

\* Python truthiness of an optional string: None and "" are falsy
TruthyText(opt) == opt # None /\ opt[1] # <<>>

(***************************************************************************)
(* The regular expressions of parse_user_request.  re.search returns the   *)
(* match at the leftmost position that has one; at a position the          *)
(* backtracking matcher prefers the longest \d+, then the longest \s*,     *)
(* then the optional group present, so the match it returns has the        *)
(* largest digit run that can be completed.                                *)
(***************************************************************************)

\* r'#([\w-]+)': group(1) of the leftmost match, or None
ChannelSearch(s) ==
    LET at == {i \in 1..Len(s) : s[i] = "#" /\ RunLen(s, i + 1, WordSet) >= 1}
    IN  IF at = {} THEN None
        ELSE LET i == Min(at)
             IN  Some(SubSeq(s, i + 1, i + RunLen(s, i + 1, WordSet)))

\* the lengths (?:ours?)? can take at position p, longest first: "ours", "our", ""
HoursSuffixLen(s, p) ==
    IF OccursAt(s, <<"o", "u", "r", "s">>, p) THEN 4
    ELSE IF OccursAt(s, <<"o", "u", "r">>, p) THEN 3
    ELSE 0

\* r'(\d+)\s*h(?:ours?)?' tried at position i: None, or the match as
\* [group1 |-> the digits, group0 |-> the whole matched text]
HoursMatchAt(s, i) ==
    LET ds == {d \in 1..RunLen(s, i, DigitSet) :
                  \E k \in 0..RunLen(s, i + d, SpaceSet) :
                      OccursAt(s, <<"h">>, i + d + k)}
    IN  IF ds = {} THEN None
        ELSE LET d == Max(ds)
                 k == Max({j \in 0..RunLen(s, i + d, SpaceSet) :
                              OccursAt(s, <<"h">>, i + d + j)})
                 e == i + d + k + HoursSuffixLen(s, i + d + k + 1)
             IN  Some([group1 |-> SubSeq(s, i, i + d - 1),
                       group0 |-> SubSeq(s, i, e)])

\* re.search(r'(\d+)\s*h(?:ours?)?', s)
HoursSearch(s) ==
    LET at == {i \in 1..Len(s) : HoursMatchAt(s, i) # None}
    IN  IF at = {} THEN None ELSE HoursMatchAt(s, Min(at))

\* the lengths (messages?|msgs?) can match at position p
CountGroupLens(s, p) ==
    {Len(w) : w \in {w \in {<<"m", "e", "s", "s", "a", "g", "e", "s">>,
                            <<"m", "e", "s", "s", "a", "g", "e">>,
                            <<"m", "s", "g", "s">>,
                            <<"m", "s", "g">>} : OccursAt(s, w, p)}}

\* the negative lookahead (?!\s*h) at position p
NotFollowedByH(s, p) ==
    ~\E k \in 0..RunLen(s, p, SpaceSet) : OccursAt(s, <<"h">>, p + k)

\* r'(\d+)\s*(messages?|msgs?)?' tried at position i, followed by the
\* lookahead (?!\s*h) when lookahead is TRUE (bot.py): group(1) or None
CountMatchAt(s, i, lookahead) ==
    LET ds == {d \in 1..RunLen(s, i, DigitSet) :
                  \E k \in 0..RunLen(s, i + d, SpaceSet) :
                      \E g \in CountGroupLens(s, i + d + k) \cup {0} :
                          lookahead => NotFollowedByH(s, i + d + k + g)}
    IN  IF ds = {} THEN None ELSE Some(SubSeq(s, i, i + Max(ds) - 1))

\* re.search of the count pattern: group(1) of the leftmost match, or None
CountSearch(s, lookahead) ==
    LET at == {i \in 1..Len(s) : CountMatchAt(s, i, lookahead) # None}
    IN  IF at = {} THEN None ELSE CountMatchAt(s, Min(at), lookahead)

(***************************************************************************)
(* parse_user_request                                                      *)
(***************************************************************************)
deep_triggers ==
    <<  <<"d", "e", "e", "p">>,
        <<"d", "e", "t", "a", "i", "l", "e", "d">>,
        <<"d", "e", "t", "a", "i", "l">>,
        <<"d", "r", "a", "m", "a">>,
        <<"w", "h", "o", " ", "s", "a", "i", "d">>,
        <<"b", "r", "e", "a", "k", "d", "o", "w", "n">>,
        <<"f", "u", "l", "l">>,
        <<"e", "v", "e", "r", "y", "t", "h", "i", "n", "g">> >>

keywords ==
    <<  <<"s", "u", "m", "m", "a", "r", "i", "z", "e">>,
        <<"s", "u", "m", "m", "a", "r", "y">>,
        <<"r", "e", "c", "a", "p">>,
        <<"w", "h", "a", "t", " ", "h", "a", "p", "p", "e", "n", "e", "d", " ", "i", "n">>,
        <<"c", "a", "t", "c", "h", " ", "m", "e", " ", "u", "p", " ", "o", "n">>,
        <<"i", "n">> >>

skip_words ==
    <<  <<"d", "e", "e", "p">>,
        <<"d", "e", "t", "a", "i", "l", "e", "d">>,
        <<"d", "e", "t", "a", "i", "l">>,
        <<"d", "r", "a", "m", "a">>,
        <<"f", "u", "l", "l">>,
        <<"t", "h", "e">>,
        <<"a">> >>

\* the channel looked for after a keyword when the text has no #channel:
\* the loop over keywords, which stops at the first keyword the text contains.
\* skipping is TRUE in the Deepseek variant, which passes over skip_words.
KeywordChannel(s, skipping) ==
    LET present == {k \in 1..Len(keywords) : Contains(s, keywords[k])}
    IN  IF present = {} THEN None
        ELSE LET keyword == keywords[Min(present)]
                 after_keyword == Strip(AfterLast(s, keyword))
                 words == Words(after_keyword)
                 usable == {j \in 1..Len(words) :
                               skipping => words[j] \notin Range(skip_words)}
             IN  IF usable = {} THEN None
                 ELSE Some(LStripHash(words[Min(usable)]))

\* the channel of the request, in either variant
FindChannelMention(s, skipping) ==
    IF ChannelSearch(s) # None THEN ChannelSearch(s) ELSE KeywordChannel(s, skipping)

\* the common time phrases: the hours the if / elif chain selects, or None
TimePhraseHours(s) ==
    IF Contains(s, <<"l", "a", "s", "t", " ", "h", "o", "u", "r">>) THEN Some(1)
    ELSE IF \/ Contains(s, <<"l", "a", "s", "t", " ", "d", "a", "y">>)
            \/ Contains(s, <<"p", "a", "s", "t", " ", "d", "a", "y">>)
            \/ Contains(s, <<"2", "4", " ", "h", "o", "u", "r", "s">>) THEN Some(24)
    ELSE IF \/ Contains(s, <<"l", "a", "s", "t", " ", "w", "e", "e", "k">>)
            \/ Contains(s, <<"p", "a", "s", "t", " ", "w", "e", "e", "k">>) THEN Some(168)
    ELSE None

\* min(a, b)
MinOf(a, b) == IF a <= b THEN a ELSE b

\* the text the Deepseek variant looks for the message count in: the request
\* with every occurrence of the matched hours text replaced by a space
ContentForCount(content_lower) ==
    LET hours_match == HoursSearch(content_lower)
    IN  IF hours_match # None
        THEN Replace(content_lower, hours_match[1].group0, <<" ">>)
        ELSE content_lower

\* the Deepseek variant's acceptance of a count as the limit
DeepseekLimit(count) ==
    IF count >= MIN_COUNT THEN Some(MinOf(count, MAX_MESSAGES)) ELSE None

\* parse_user_request of the Deepseek variant
parse_user_request_deepseek(text) ==
    LET content_lower == Strip(Lower(text))
        hours_match == HoursSearch(content_lower)
        hours0 == IF hours_match # None
                  THEN Some(ToInt(hours_match[1].group1)) ELSE None
        phrase == TimePhraseHours(content_lower)
        count_match == CountSearch(ContentForCount(content_lower), FALSE)
    IN  [channel |-> FindChannelMention(content_lower, TRUE),
         limit   |-> IF count_match # None
                     THEN DeepseekLimit(ToInt(count_match[1])) ELSE None,
         hours   |-> IF phrase # None /\ ~Truthy(hours0) THEN phrase ELSE hours0,
         deep    |-> \E w \in Range(deep_triggers) : Contains(content_lower, w)]

\* the OpenAI variant's limit for a matched count
OpenaiLimit(count) == Some(MinOf(count, MAX_MESSAGES))

\* parse_user_request of the OpenAI variant (its dict has no 'deep' key; the
\* pipeline of that variant never reads it, and it is FALSE here)
parse_user_request_openai(text) ==
    LET content_lower == Strip(Lower(text))
        count_match == CountSearch(content_lower, TRUE)
        hours_match == HoursSearch(content_lower)
        phrase == TimePhraseHours(content_lower)
    IN  [channel |-> FindChannelMention(content_lower, FALSE),
         limit   |-> IF count_match # None
                     THEN OpenaiLimit(ToInt(count_match[1])) ELSE None,
         hours   |-> IF phrase # None THEN phrase
                     ELSE IF hours_match # None
                     THEN Some(ToInt(hours_match[1].group1)) ELSE None,
         deep    |-> FALSE]

parse_user_request(v, text) ==
    IF v = "deepseek" THEN parse_user_request_deepseek(text)
    ELSE parse_user_request_openai(text)

(***************************************************************************)
(* The parser on its own: every request text made of at most MaxPieces     *)
(* pieces is parsed by either variant.                                     *)
(***************************************************************************)
\* the pieces request texts are concatenated from
ParsePieces ==
    { <<"1">>, <<"7">>, <<"h">>, <<"H">>, <<" ">>, <<"m", "s", "g", "s">> }

RECURSIVE TextsOf(_, _)
TextsOf(pieces, n) ==
    IF n = 0 THEN {<<>>}
    ELSE LET shorter == TextsOf(pieces, n - 1)
         IN  shorter \cup {t \o p : t \in shorter, p \in pieces}

ParseInputs == TextsOf(ParsePieces, MaxPieces)

\* the variables of the other components, at rest
ParserAtRest == variant = "deepseek" /\ content = <<>> /\ parsed = None
ChunkerAtRest == summary = <<>> /\ sizeLimit = 0 /\ chunks = <<>>
ResolverAtRest == guilds = <<>> /\ author = "u1" /\ query = None /\ channel = None
\* a run of on_message that has not begun
IdleRun ==
    [pc |-> "idle", parsed |-> None, channel |-> None, status_msg |-> "none",
     messages |-> <<>>, summary |-> <<>>, embeds |-> <<>>, delivered |-> 0,
     caught |-> "", escaped |-> None, outbox |-> <<>>, steps |-> <<>>,
     fetched |-> FALSE, fetch_calls |-> 0, summarize_calls |-> 0,
     llm_raised |-> FALSE, generated |-> <<>>, origin |-> ""]

HandlerAtRest == is_dm = TRUE /\ run = IdleRun /\ shadow = IdleRun

InitParse ==
    /\ variant \in Variants
    /\ content \in ParseInputs
    /\ parsed = None
    /\ pc = "parse_call"
    /\ ChunkerAtRest
    /\ ResolverAtRest
    /\ HandlerAtRest

\* a call of parse_user_request(content)
ParseCall ==
    /\ pc = "parse_call"
    /\ parsed' = Some(parse_user_request(variant, content))
    /\ pc' = "parse_return"
    /\ UNCHANGED <<variant, content, chunkerVars, resolverVars, handlerVars>>

NextParse == ParseCall

SpecParse == InitParse /\ [][NextParse]_vars

(***************************************************************************)
(* The parser on request texts made of words: keywords, channel words,     *)
(* skip words, hours expressions, time phrases and a #channel with a digit *)
(* in its name, at most MaxPieces of them.                                 *)
(***************************************************************************)
WordPieces ==
    { <<"i", "n", " ">>,
      <<"r", "e", "c", "a", "p", " ">>,
      <<"t", "h", "e", " ">>,
      <<"x", " ">>,
      <<"y">>,
      <<"0", "h", " ">>,
      <<"l", "a", "s", "t", " ", "w", "e", "e", "k", " ">>,
      <<"l", "a", "s", "t", " ", "h", "o", "u", "r", " ">>,
      <<"#", "a", "7">>,
      <<" ", "h", "i">> }

WordInputs == TextsOf(WordPieces, MaxPieces)

InitParseWords ==
    /\ variant \in Variants
    /\ content \in WordInputs
    /\ parsed = None
    /\ pc = "parse_call"
    /\ ChunkerAtRest
    /\ ResolverAtRest
    /\ HandlerAtRest

SpecParseWords == InitParseWords /\ [][NextParse]_vars

(***************************************************************************)
(* The embed-splitting code of on_message (Deepseek variant).  A chunk is  *)
(* kept with the paragraphs that were accumulated into it:                 *)
(* [body |-> the string the code appends to chunks,                        *)
(*  paras |-> the paragraphs added to current_chunk for it].               *)
(***************************************************************************)
Blank == <<"\n", "\n">>

\* summary.split('\n\n')
RECURSIVE SplitParagraphs(_)
SplitParagraphs(s) ==
    LET at == Occurrences(s, Blank)
    IN  IF at = {} THEN <<s>>
        ELSE <<SubSeq(s, 1, Min(at) - 1)>> \o SplitParagraphs(From(s, Min(at) + 2))

\* FitsInChunk with the length of the paragraph left out of the test
FitsInChunk_IgnoringPara(current_chunk, para, limit) ==
    Len(current_chunk) + 2 < limit

\* "if len(current_chunk) + len(para) + 2 < MAX_EMBED_LENGTH"
FitsInChunk(current_chunk, para, limit) ==
    Len(current_chunk) + Len(para) + 2 < limit

\* chunks.append(current_chunk.strip()), done only "if current_chunk"
CloseChunk(done, current_chunk, current_paras) ==
    IF current_chunk # <<>>
    THEN Append(done, [body |-> Strip(current_chunk), paras |-> current_paras])
    ELSE done

\* the loop "for para in paragraphs" from paragraph i on, and the closing of
\* the last chunk after it
RECURSIVE SplitLoop(_, _, _, _, _, _)
SplitLoop(paragraphs, i, done, current_chunk, current_paras, limit) ==
    IF i > Len(paragraphs) THEN CloseChunk(done, current_chunk, current_paras)
    ELSE LET para == paragraphs[i]
         IN  IF FitsInChunk(current_chunk, para, limit)
             THEN SplitLoop(paragraphs, i + 1, done,
                            current_chunk \o para \o Blank,
                            Append(current_paras, para), limit)
             ELSE SplitLoop(paragraphs, i + 1,
                            CloseChunk(done, current_chunk, current_paras),
                            para \o Blank, <<para>>, limit)

\* the else branch: "Split into multiple embeds"
SplitIntoChunks(text, limit) ==
    SplitLoop(SplitParagraphs(text), 1, <<>>, <<>>, <<>>, limit)

\* the descriptions of the embeds built for a summary: the summary itself when
\* len(summary) <= limit, else the chunks
EmbedChunks(text, limit) ==
    IF Len(text) <= limit
    THEN <<[body |-> text, paras |-> SplitParagraphs(text)]>>
    ELSE SplitIntoChunks(text, limit)

(***************************************************************************)
(* The embed-splitting code on its own: every text of at most MaxTextLen   *)
(* characters, under every size limit up to MaxSizeLimit.                  *)
(***************************************************************************)
ChunkAlphabet == {"x", " ", "\n"}

ChunkInputs == UNION {[1..n -> ChunkAlphabet] : n \in 0..MaxTextLen}

InitChunk ==
    /\ summary \in ChunkInputs
    /\ sizeLimit \in 1..MaxSizeLimit
    /\ chunks = <<>>
    /\ pc = "chunk_call"
    /\ ParserAtRest
    /\ ResolverAtRest
    /\ HandlerAtRest

\* the if / else that builds the embed descriptions of summary
ChunkCall ==
    /\ pc = "chunk_call"
    /\ chunks' = EmbedChunks(summary, sizeLimit)
    /\ pc' = "chunk_return"
    /\ UNCHANGED <<summary, sizeLimit, parserVars, resolverVars, handlerVars>>

NextChunk == ChunkCall

SpecChunk == InitChunk /\ [][NextChunk]_vars

(***************************************************************************)
(* The platform: servers, memberships, channels and permissions.           *)
(* guilds is bot.guilds in iteration order; a guild is                     *)
(*   [name, members (the users guild.get_member finds),                    *)
(*    text_channels (in iteration order)]                                  *)
(* and a channel is                                                        *)
(*   [name, read_messages (the members permissions_for gives it to),       *)
(*    read_message_history (likewise)].                                    *)
(* A channel object is referred to by its place, [guild, index].           *)
(***************************************************************************)
Users == {"u1"}
Bot == "bot"

ChannelNames == { <<"a">>, <<"B">> }

ChannelRecs ==
    [name : ChannelNames,
     read_messages : SUBSET Users,
     read_message_history : SUBSET {Bot}]

GuildName(g) == <<"g", Digits[g + 1]>>

\* the servers made of the channels cs, in order, cut into NumGuilds runs at cuts
MakeGuilds(members, cs, cuts) ==
    [g \in 1..NumGuilds |->
        [name |-> GuildName(g),
         members |-> members[g],
         text_channels |->
            SubSeq(cs, (IF g = 1 THEN 0 ELSE cuts[g - 1]) + 1,
                       IF g = NumGuilds THEN Len(cs) ELSE cuts[g])]]

\* the ways to cut k channels into NumGuilds runs: where each run but the last ends
Cuts(k) ==
    {c \in [1..(NumGuilds - 1) -> 0..k] :
        \A g \in 1..(NumGuilds - 2) : c[g] <= c[g + 1]}

\* every platform with at most n channels in all, the channels taken from recs
WorldsOf(recs, n) ==
    UNION { { MakeGuilds(members, cs, cuts) :
                members \in [1..NumGuilds -> SUBSET Users],
                cuts \in Cuts(Len(cs)) } :
            cs \in UNION {[1..k -> recs] : k \in 0..n} }

\* every platform with at most n channels in all
Worlds(n) == WorldsOf(ChannelRecs, n)

\* the places a channel can be at, whether or not a channel is there
Places(n) == [guild : 1..NumGuilds, index : 1..n]

\* the channel object at a place
ChannelAt(gs, h) == gs[h.guild].text_channels[h.index]

\* guild.get_member(user_id): the member, or None
GetMember(guild, user_id) ==
    IF user_id \in guild.members THEN Some(user_id) ELSE None

\* CanReadMessages with the permission test left out
CanReadMessages_Unchecked(ch, member) == TRUE

\* channel.permissions_for(member).read_messages
CanReadMessages(ch, member) == member \in ch.read_messages

\* channel.permissions_for(member).read_message_history
CanReadHistory(ch, member) == member \in ch.read_message_history

\* the first of a set of places in iteration order: guild by guild, and
\* channel by channel within a guild
FirstPlace(hs) ==
    CHOOSE h \in hs : \A o \in hs :
        h.guild < o.guild \/ (h.guild = o.guild /\ h.index <= o.index)

\* find_channel_in_guilds(bot, channel_name, user_id)
find_channel_in_guilds(gs, channel_name, user_id) ==
    LET wanted == Lower(LStripHash(Strip(channel_name)))
        found == {h \in [guild : 1..Len(gs), index : 1..MaxChannels + 1] :
                    /\ h.index <= Len(gs[h.guild].text_channels)
                    /\ GetMember(gs[h.guild], user_id) # None
                    /\ Lower(ChannelAt(gs, h).name) = wanted
                    /\ CanReadMessages(ChannelAt(gs, h),
                                       GetMember(gs[h.guild], user_id)[1])}
    IN  IF found = {} THEN None ELSE Some(FirstPlace(found))

\* bot.get_channel(channel_id): the channel with that id, or None
GetChannel(gs, channel_id) ==
    IF /\ channel_id.guild \in 1..Len(gs)
       /\ channel_id.index \in 1..Len(gs[channel_id.guild].text_channels)
    THEN Some(channel_id) ELSE None

\* find_channel_by_id(bot, channel_id, user_id) of the OpenAI variant
find_channel_by_id(gs, channel_id, user_id) ==
    LET found == GetChannel(gs, channel_id)
    IN  IF found = None THEN None
        ELSE LET member == GetMember(gs[found[1].guild], user_id)
             IN  IF member = None THEN None
                 ELSE IF ~CanReadMessages(ChannelAt(gs, found[1]), member[1])
                 THEN None
                 ELSE found

(***************************************************************************)
(* The resolvers on their own: every platform of at most MaxChannels       *)
(* channels, every requester, every channel reference.                     *)
(***************************************************************************)
\* the channel names a resolver is called with
QueryNames == { <<"a">>, <<" ", "#", "A">>, <<"b">>, <<"c">> }

ResolverQueries ==
    {[by |-> "name", ref |-> n] : n \in QueryNames}
        \cup {[by |-> "id", ref |-> h] : h \in Places(MaxChannels)}

\* the resolvers never look at read_message_history: the bot holds it on
\* every channel of the platforms they are called on here
ResolverChannelRecs == {c \in ChannelRecs : c.read_message_history = {Bot}}

InitResolve ==
    /\ guilds \in WorldsOf(ResolverChannelRecs, MaxChannels)
    /\ author \in Users
    /\ query \in {Some(q) : q \in ResolverQueries}
    /\ channel = None
    /\ pc = "resolve_call"
    /\ ParserAtRest
    /\ ChunkerAtRest
    /\ HandlerAtRest

\* a call of find_channel_in_guilds(bot, query, author)
FindChannelInGuildsCall ==
    /\ pc = "resolve_call"
    /\ query[1].by = "name"
    /\ channel' = find_channel_in_guilds(guilds, query[1].ref, author)
    /\ pc' = "resolve_return"
    /\ UNCHANGED <<guilds, author, query, parserVars, chunkerVars, handlerVars>>

\* a call of find_channel_by_id(bot, query, author)
FindChannelByIdCall ==
    /\ pc = "resolve_call"
    /\ query[1].by = "id"
    /\ channel' = find_channel_by_id(guilds, query[1].ref, author)
    /\ pc' = "resolve_return"
    /\ UNCHANGED <<guilds, author, query, parserVars, chunkerVars, handlerVars>>

NextResolve == FindChannelInGuildsCall \/ FindChannelByIdCall

SpecResolve == InitResolve /\ [][NextResolve]_vars

(***************************************************************************)
(* on_message.  A run of the handler is a record                           *)
(*   pc              where the handler is                                  *)
(*   parsed          the result of parse_user_request, None before it      *)
(*   channel         the place of the resolved channel, None if none       *)
(*   status_msg      "none", "shown" or "deleted"                          *)
(*   messages        what fetch_messages returned                          *)
(*   summary         what the summarizer returned                          *)
(*   embeds          the embeds to deliver, delivered of them sent so far  *)
(*   caught          the exception an except clause is handling            *)
(*   escaped         the exception that left on_message, with the place    *)
(*   origin          the channel the event arrived on, "dm" or "server"    *)
(*   outbox          every send, edit and delete the handler makes, in     *)
(*                   order, whether or not the call raised; "to" is the    *)
(*                   channel the call is made in                           *)
(*   steps, fetched, fetch_calls, summarize_calls, llm_raised, generated   *)
(*                   what the run has done so far (history of the run)     *)
(* A collaborator call takes its result from an outcome o chosen by the    *)
(* environment: o.raises for a platform call, o.history for the messages   *)
(* channel.history yields, o.llm for the language-model call.              *)
(***************************************************************************)
\* the character U+274C (cross mark) that starts the code's error messages
CrossMark == "(x)"

MAX_EMBED_LENGTH == 4000
DEFAULT_MESSAGES == 50
\* "if len(summary) > 4000" in summarize_with_deepseek
SUMMARY_CEILING == 4000
\* "summary[:3950]" in summarize_with_deepseek
SUMMARY_KEPT == 3950

\* the run when the event arrives
InitRun == [IdleRun EXCEPT !.pc = "received"]

\* a call on the DM channel; the fields a message does not have stay blank
BlankMsg ==
    [op |-> "send", kind |-> "", deep |-> FALSE, channel |-> <<>>,
     guild |-> <<>>, text |-> <<>>, count |-> None, hours |-> None,
     limit |-> None, part |-> 0, of |-> 0, error |-> "", to |-> ""]

NoOutcome ==
    [raises |-> "no", history |-> <<>>, llm |-> [raises |-> "no", text |-> <<>>]]

\* what a platform call can do: return, or raise discord.Forbidden or
\* another discord.HTTPException
PlatformOutcomes == {"no", "Forbidden", "HTTPException"}

\* the authors of the messages channel.history yields: a user or a bot
Histories == UNION {[1..k -> {"user", "bot"}] : k \in 0..MaxHistory}

\* the texts the language model returns
LlmTexts == { <<"o", "k">>, <<CrossMark, "!">> }

\* what the language-model call can do: return a text, or raise
\* openai.APIError or another Exception
LlmOutcomes ==
    {[raises |-> "no", text |-> t] : t \in LlmTexts}
        \cup {[raises |-> e, text |-> <<>>] : e \in {"APIError", "Exception"}}

\* the steps that make one platform call on the DM channel
PlatformSteps ==
    {"help", "servers", "channels", "clarify", "not_found", "no_permission",
     "status", "no_messages", "announce", "report_error", "delete_status",
     "deliver", "handle_forbidden", "handle_error"}

\* the outcomes the environment can give the step at pc
OutcomesAt(at) ==
    IF at \in PlatformSteps
    THEN {[NoOutcome EXCEPT !.raises = x] : x \in PlatformOutcomes}
    ELSE IF at = "fetch"
    THEN {[NoOutcome EXCEPT !.raises = x] : x \in PlatformOutcomes \ {"no"}}
            \cup {[NoOutcome EXCEPT !.history = h] : h \in Histories}
    ELSE IF at = "summarize"
    THEN {[NoOutcome EXCEPT !.llm = l] : l \in LlmOutcomes}
    ELSE {NoOutcome}

\* the call m is made: a send on message.channel, or an edit or delete of
\* the status message, which was sent on message.channel
Sent(r, m) == [r EXCEPT !.outbox = Append(@, [m EXCEPT !.to = r.origin])]

\* "return"
Finish(r) == [r EXCEPT !.pc = "done"]

\* an exception raised outside the try block, or inside an except clause,
\* leaves on_message
Escape(r, exc) ==
    [r EXCEPT !.pc = "done", !.escaped = Some([exc |-> exc, at |-> r.pc])]

\* Catch with the fetch tried again instead of the except clause
Catch_Retrying(r, exc) == [r EXCEPT !.pc = "fetch", !.caught = exc]

\* an exception raised inside the try block: "except discord.Forbidden" takes
\* Forbidden, "except Exception" everything else
Catch(r, exc) ==
    [r EXCEPT !.pc = IF exc = "Forbidden" THEN "handle_forbidden" ELSE "handle_error",
              !.caught = exc]

\* "await message.channel.send(...)" followed by "return", outside the try block
SendAndReturn(r, m, o) ==
    IF o.raises = "no" THEN Finish(Sent(r, m)) ELSE Escape(Sent(r, m), o.raises)

\* what "await status_msg.edit(...)" does: editing a deleted message raises
\* discord.NotFound
EditRaises(r, o) == IF r.status_msg = "deleted" THEN "NotFound" ELSE o.raises

\* separated texts joined: sep.join(texts)
RECURSIVE Join(_, _)
Join(texts, sep) ==
    IF texts = <<>> THEN <<>>
    ELSE IF Len(texts) = 1 THEN texts[1]
    ELSE texts[1] \o sep \o Join(Tail(texts), sep)

\* texts[:n]
Take(texts, n) == SubSeq(texts, 1, MinOf(Len(texts), n))

HelpCommands ==
    { <<"h", "e", "l", "p">>, <<"!", "h", "e", "l", "p">>,
      <<"c", "o", "m", "m", "a", "n", "d", "s">>, <<"?">> }

ServerCommands ==
    { <<"s", "e", "r", "v", "e", "r", "s">>,
      <<"l", "i", "s", "t", " ", "s", "e", "r", "v", "e", "r", "s">>,
      <<"m", "y", " ", "s", "e", "r", "v", "e", "r", "s">> }

ChannelsWord == <<"c", "h", "a", "n", "n", "e", "l", "s">>
ListWord == <<"l", "i", "s", "t">>

\* IsDirectMessage with the test left out
IsDirectMessage_Any(inp) == TRUE

\* "isinstance(message.channel, discord.DMChannel)"
IsDirectMessage(inp) == inp.is_dm

\* the start of on_message: the filters and the commands.  message.channel,
\* the channel the event arrived on, is the origin of the run.
DoDispatch(r0, inp) ==
    LET text == Strip(inp.content)
        r == [r0 EXCEPT !.origin = IF inp.is_dm THEN "dm" ELSE "server"]
    IN  IF inp.author = Bot THEN Finish(r)
        ELSE IF ~IsDirectMessage(inp) THEN Finish(r)
        ELSE IF Lower(text) \in HelpCommands THEN [r EXCEPT !.pc = "help"]
        ELSE IF Lower(text) \in ServerCommands THEN [r EXCEPT !.pc = "servers"]
        ELSE IF \/ StartsWith(Lower(text), ChannelsWord)
                \/ StartsWith(Lower(text), ListWord \o <<" ">> \o ChannelsWord)
             THEN [r EXCEPT !.pc = "channels"]
        ELSE [r EXCEPT !.pc = "parse"]

\* send_help_message
DoSendHelp(r, o) == SendAndReturn(r, [BlankMsg EXCEPT !.kind = "help"], o)

\* the indexes of the guilds the user is a member of, in order
SharedGuilds(gs, user_id) ==
    LET IsShared(g) == GetMember(gs[g], user_id) # None
    IN  SelectSeq([g \in 1..Len(gs) |-> g], IsShared)

\* list_user_servers
DoListUserServers(r, inp, o) ==
    LET shared == SharedGuilds(inp.guilds, inp.author)
        names == [k \in 1..Len(shared) |-> inp.guilds[shared[k]].name]
    IN  IF shared = <<>>
        THEN SendAndReturn(r, [BlankMsg EXCEPT !.kind = "no_shared_servers"], o)
        ELSE SendAndReturn(r, [BlankMsg EXCEPT !.kind = "shared_servers",
                                               !.text = Join(names, <<"\n">>)], o)

\* AccessibleChannels with the permission test left out
AccessibleChannels_Unchecked(guild, member) ==
    [k \in 1..Len(guild.text_channels) |-> <<"#">> \o guild.text_channels[k].name]

\* "#name" of the channels of a guild the member may read, in order
AccessibleChannels(guild, member) ==
    LET CanRead(ch) == CanReadMessages(ch, member)
        readable == SelectSeq(guild.text_channels, CanRead)
    IN  [k \in 1..Len(readable) |-> <<"#">> \o readable[k].name]

\* the fields of the "Available Channels" embed, one line for every guild of
\* tocheck the user is a member of and has an accessible channel in; the
\* Deepseek variant shows 20 channels of a guild, the OpenAI variant 25
RECURSIVE ChannelListing(_, _, _, _)
ChannelListing(gs, tocheck, user_id, shown) ==
    IF tocheck = <<>> THEN <<>>
    ELSE LET guild == gs[Head(tocheck)]
             member == GetMember(guild, user_id)
             accessible == IF member = None THEN <<>>
                           ELSE AccessibleChannels(guild, member[1])
             rest == ChannelListing(gs, Tail(tocheck), user_id, shown)
         IN  IF accessible = <<>> THEN rest
             ELSE guild.name \o <<":">>
                    \o Join(Take(accessible, shown), <<",", " ">>)
                    \o (IF Len(accessible) > shown THEN <<".", ".", ".">> ELSE <<>>)
                    \o <<"\n">> \o rest

\* list_server_channels of the Deepseek variant
ListServerChannelsDeepseek(r, inp, o) ==
    SendAndReturn(r,
        [BlankMsg EXCEPT !.kind = "channels",
                         !.text = ChannelListing(inp.guilds,
                                     [g \in 1..Len(inp.guilds) |-> g],
                                     inp.author, 20)], o)

\* list_server_channels of the OpenAI variant, which takes a server name
ListServerChannelsOpenai(r, inp, o) ==
    LET wanted == Strip(Replace(Replace(Lower(inp.content), ChannelsWord, <<>>),
                                ListWord, <<>>))
        targets == {g \in 1..Len(inp.guilds) :
                      /\ Lower(inp.guilds[g].name) = Lower(wanted)
                      /\ GetMember(inp.guilds[g], inp.author) # None}
    IN  IF wanted # <<>> /\ targets = {}
        THEN SendAndReturn(r, [BlankMsg EXCEPT !.kind = "server_not_found",
                                               !.text = wanted], o)
        ELSE SendAndReturn(r,
                [BlankMsg EXCEPT !.kind = "channels",
                                 !.text = ChannelListing(inp.guilds,
                                     IF wanted # <<>> THEN <<Min(targets)>>
                                     ELSE [g \in 1..Len(inp.guilds) |-> g],
                                     inp.author, 25)], o)

DoListServerChannels(r, inp, o) ==
    IF inp.variant = "deepseek" THEN ListServerChannelsDeepseek(r, inp, o)
    ELSE ListServerChannelsOpenai(r, inp, o)

\* "parsed = parse_user_request(content)" and the test of parsed['channel']
DoParse(r, inp) ==
    LET p == parse_user_request(inp.variant, Strip(inp.content))
    IN  [r EXCEPT !.parsed = Some(p),
                  !.pc = IF TruthyText(p.channel) THEN "resolve" ELSE "clarify"]

\* the reply to a request that names no channel
DoSendClarification(r, o) ==
    SendAndReturn(r, [BlankMsg EXCEPT !.kind = "clarify"], o)

\* "channel = find_channel_in_guilds(bot, parsed['channel'], message.author.id)"
\* and the test of channel
DoResolve(r, inp) ==
    LET found == find_channel_in_guilds(inp.guilds, r.parsed[1].channel[1], inp.author)
    IN  [r EXCEPT !.channel = found,
                  !.pc = IF found = None THEN "not_found" ELSE "check_permission"]

\* the reply when no channel was found; it shows parsed['channel']
DoSendNotFound(r, o) ==
    SendAndReturn(r, [BlankMsg EXCEPT !.kind = "not_found",
                                      !.channel = r.parsed[1].channel[1]], o)

\* CanReadHistory with the permission test left out
BotCanReadHistory_Unchecked(ch) == TRUE

\* "channel.permissions_for(bot_member).read_message_history", bot_member
\* being the bot's own member object in the channel's guild
BotCanReadHistory(ch) == CanReadHistory(ch, Bot)

\* the test of the bot's permission on the resolved channel
DoCheckBotPermission(r, inp) ==
    [r EXCEPT !.pc = IF BotCanReadHistory(ChannelAt(inp.guilds, r.channel[1]))
                     THEN "status" ELSE "no_permission"]

\* the reply when the bot may not read the channel's history
DoSendPermissionError(r, inp, o) ==
    SendAndReturn(r, [BlankMsg EXCEPT !.kind = "no_permission",
                         !.channel = ChannelAt(inp.guilds, r.channel[1]).name], o)

\* "status_msg = await message.channel.send(...)", before the try block
DoSendStatus(r, inp, o) ==
    LET m == [BlankMsg EXCEPT !.kind = "status",
                              !.deep = r.parsed[1].deep,
                              !.channel = ChannelAt(inp.guilds, r.channel[1]).name,
                              !.guild = inp.guilds[r.channel[1].guild].name]
    IN  IF o.raises = "no"
        THEN [Sent(r, m) EXCEPT !.status_msg = "shown", !.pc = "fetch"]
        ELSE Escape(Sent(r, m), o.raises)

\* the limit fetch_messages passes to channel.history
FetchLimit(v, limit, hours) ==
    IF v = "deepseek"
    THEN IF Truthy(limit) THEN MinOf(limit[1], MAX_MESSAGES)
         ELSE IF Truthy(hours) THEN MAX_MESSAGES
         ELSE DEFAULT_MESSAGES
    ELSE MinOf(IF Truthy(limit) THEN limit[1] ELSE DEFAULT_MESSAGES, MAX_MESSAGES)

\* fetch_messages: of the messages the channel yields, at most the fetch limit
\* are read and those of bots are skipped
fetch_messages(v, history, limit, hours) ==
    LET ByUser(a) == a # "bot"
    IN  SelectSeq(Take(history, FetchLimit(v, limit, hours)), ByUser)

\* FetchedNothing with the test left out
FetchedNothing_Never(messages) == FALSE

\* "if not messages"
FetchedNothing(messages) == messages = <<>>

\* "messages = await fetch_messages(...)" and the test of messages
DoFetch(r, inp, o) ==
    LET r1 == [r EXCEPT !.fetch_calls = @ + 1]
        got == fetch_messages(inp.variant, o.history,
                              r.parsed[1].limit, r.parsed[1].hours)
    IN  IF o.raises # "no" THEN Catch(r1, o.raises)
        ELSE [r1 EXCEPT !.messages = got, !.fetched = TRUE,
                        !.pc = IF FetchedNothing(got) THEN "no_messages"
                               ELSE "announce"]

\* the hours shown by a message: only "if parsed['hours']"
HoursShown(p) == IF Truthy(p.hours) THEN p.hours ELSE None

\* the limit shown by a message: only "if parsed['limit']"
LimitShown(p) == IF Truthy(p.limit) THEN p.limit ELSE None

\* "if not messages": the status message is edited to the no-messages text,
\* then "return"
DoEditNoMessages(r, inp, o) ==
    LET m == [BlankMsg EXCEPT !.op = "edit", !.kind = "no_messages",
                              !.channel = ChannelAt(inp.guilds, r.channel[1]).name,
                              !.hours = HoursShown(r.parsed[1])]
    IN  IF EditRaises(r, o) = "no" THEN Finish(Sent(r, m))
        ELSE Catch(Sent(r, m), EditRaises(r, o))

\* the status message is edited to "Summarizing n messages ..."
DoEditSummarizing(r, inp, o) ==
    LET m == [BlankMsg EXCEPT !.op = "edit", !.kind = "summarizing",
                              !.deep = r.parsed[1].deep,
                              !.channel = ChannelAt(inp.guilds, r.channel[1]).name,
                              !.count = Some(Len(r.messages))]
    IN  IF EditRaises(r, o) = "no" THEN [Sent(r, m) EXCEPT !.pc = "summarize"]
        ELSE Catch(Sent(r, m), EditRaises(r, o))

\* the text of an exception, str(e), as one character
ExcText(exc) == <<exc>>

\* "No messages found in the specified time range."
NoMessagesText ==
    <<"N", "o", " ", "m", "e", "s", "s", "a", "g", "e", "s", " ", "f", "o",
      "u", "n", "d", " ", "i", "n", " ", "t", "h", "e", " ", "s", "p",
      "e", "c", "i", "f", "i", "e", "d", " ", "t", "i", "m", "e", " ",
      "r", "a", "n", "g", "e", ".">>

\* the text put after a cut summary
TruncationNote ==
    <<"\n", "\n", ".", ".", ".", " ", "*", "(", "s", "u", "m", "m", "a", "r",
      "y", " ", "t", "r", "u", "n", "c", "a", "t", "e", "d", " ", "d",
      "u", "e", " ", "t", "o", " ", "l", "e", "n", "g", "t", "h", ")", "*">>

\* the starts of the texts the summarizers return for an exception
DeepseekErrorPrefix ==
    <<CrossMark, " ", "E", "r", "r", "o", "r", " ", "d", "u", "r", "i", "n",
      "g", " ", "s", "u", "m", "m", "a", "r", "i", "z", "a", "t", "i",
      "o", "n", ":", " ">>

ApiErrorPrefix ==
    <<CrossMark, " ", "E", "r", "r", "o", "r", " ", "c", "o", "m", "m", "u",
      "n", "i", "c", "a", "t", "i", "n", "g", " ", "w", "i", "t", "h",
      " ", "A", "I", " ", "s", "e", "r", "v", "i", "c", "e", ":", " ">>

UnexpectedErrorPrefix ==
    <<CrossMark, " ", "U", "n", "e", "x", "p", "e", "c", "t", "e", "d", " ",
      "e", "r", "r", "o", "r", " ", "d", "u", "r", "i", "n", "g", " ",
      "s", "u", "m", "m", "a", "r", "i", "z", "a", "t", "i", "o", "n",
      ":", " ">>

\* summarize_with_deepseek: every exception of the call is turned into a text
\* that starts with the cross mark, and a long answer is cut
summarize_with_deepseek(messages, llm) ==
    IF messages = <<>> THEN NoMessagesText
    ELSE IF llm.raises # "no"
    THEN DeepseekErrorPrefix \o ExcText(llm.raises)
    ELSE IF Len(llm.text) > SUMMARY_CEILING
    THEN SubSeq(llm.text, 1, SUMMARY_KEPT) \o TruncationNote
    ELSE llm.text

\* summarize_with_ai: an openai.APIError and any other exception of the call
\* are each turned into a text that starts with the cross mark
summarize_with_ai(messages, llm) ==
    IF messages = <<>> THEN NoMessagesText
    ELSE IF llm.raises = "APIError"
    THEN ApiErrorPrefix \o ExcText(llm.raises)
    ELSE IF llm.raises # "no"
    THEN UnexpectedErrorPrefix \o ExcText(llm.raises)
    ELSE llm.text

\* "if summary.startswith(CrossMark)", a test only the Deepseek variant makes
SummaryIsError(v, text) == v = "deepseek" /\ StartsWith(text, <<CrossMark>>)

\* "summary = await summarize_with_...(messages, channel.name)" and, in the
\* Deepseek variant, the test of the summary
DoSummarize(r, inp, o) ==
    LET text == IF inp.variant = "deepseek"
                THEN summarize_with_deepseek(r.messages, o.llm)
                ELSE summarize_with_ai(r.messages, o.llm)
    IN  [r EXCEPT !.summarize_calls = @ + 1,
                  !.llm_raised = o.llm.raises # "no",
                  !.generated = o.llm.text,
                  !.summary = text,
                  !.pc = IF SummaryIsError(inp.variant, text)
                         THEN "report_error" ELSE "delete_status"]

\* "await status_msg.edit(content=summary)" and "return" (Deepseek variant)
DoEditError(r, o) ==
    LET m == [BlankMsg EXCEPT !.op = "edit", !.kind = "text", !.text = r.summary]
    IN  IF EditRaises(r, o) = "no" THEN Finish(Sent(r, m))
        ELSE Catch(Sent(r, m), EditRaises(r, o))

\* the embeds built from a summary under the embed size limit: one in the
\* OpenAI variant; in the Deepseek variant one when len(summary) <= limit,
\* else one for every chunk.  p is the parsed request, name and gname the
\* names of the channel and its guild, count is len(messages).
RenderEmbeds(v, p, name, gname, count, text, limit) ==
    LET chunked == SplitIntoChunks(text, limit)
        n == Len(chunked)
        titled == [BlankMsg EXCEPT !.kind = "summary", !.deep = p.deep,
                                   !.channel = name, !.hours = HoursShown(p)]
    IN  IF v = "openai" \/ Len(text) <= limit
        THEN <<[titled EXCEPT !.text = text,
                              !.guild = gname,
                              !.count = Some(count),
                              !.limit = LimitShown(p)]>>
        ELSE [i \in 1..n |->
                IF i = 1
                THEN [titled EXCEPT !.text = chunked[1].body, !.part = 1, !.of = n]
                ELSE [BlankMsg EXCEPT
                        !.kind = "continued", !.deep = p.deep, !.channel = name,
                        !.text = chunked[i].body, !.part = i, !.of = n,
                        !.count = IF i = n THEN Some(count) ELSE None]]

\* the embeds on_message builds from the summary of the run
SummaryEmbeds(r, inp) ==
    RenderEmbeds(inp.variant, r.parsed[1],
                 ChannelAt(inp.guilds, r.channel[1]).name,
                 inp.guilds[r.channel[1].guild].name,
                 Len(r.messages), r.summary, MAX_EMBED_LENGTH)

\* "await status_msg.delete()"
DoDeleteStatus(r, inp, o) ==
    LET r1 == Sent(r, [BlankMsg EXCEPT !.op = "delete", !.kind = "status"])
    IN  IF o.raises = "no"
        THEN [r1 EXCEPT !.status_msg = "deleted",
                        !.embeds = SummaryEmbeds(r, inp), !.pc = "deliver"]
        ELSE Catch(r1, o.raises)

\* "await message.channel.send(embed=embed)" for the next embed
DoDeliver(r, o) ==
    LET r1 == Sent(r, r.embeds[r.delivered + 1])
    IN  IF o.raises # "no" THEN Catch(r1, o.raises)
        ELSE IF r.delivered + 1 = Len(r.embeds)
        THEN Finish([r1 EXCEPT !.delivered = @ + 1])
        ELSE [r1 EXCEPT !.delivered = @ + 1]

\* "except discord.Forbidden": the status message is edited
DoHandleForbidden(r, o) ==
    LET m == [BlankMsg EXCEPT !.op = "edit", !.kind = "forbidden"]
    IN  IF EditRaises(r, o) = "no" THEN Finish(Sent(r, m))
        ELSE Escape(Sent(r, m), EditRaises(r, o))

\* "except Exception as e": the status message is edited to show str(e)
DoHandleError(r, o) ==
    LET m == [BlankMsg EXCEPT !.op = "edit", !.kind = "error", !.error = r.caught]
    IN  IF EditRaises(r, o) = "no" THEN Finish(Sent(r, m))
        ELSE Escape(Sent(r, m), EditRaises(r, o))

\* the run with the step it is about to take written down
Logged(r) == [r EXCEPT !.steps = Append(@, r.pc)]

\* one step of on_message from where the run is, under outcome o
Advance(r0, inp, o) ==
    LET r == Logged(r0)
    IN  CASE r0.pc = "received"         -> DoDispatch(r, inp)
          [] r0.pc = "help"             -> DoSendHelp(r, o)
          [] r0.pc = "servers"          -> DoListUserServers(r, inp, o)
          [] r0.pc = "channels"         -> DoListServerChannels(r, inp, o)
          [] r0.pc = "parse"            -> DoParse(r, inp)
          [] r0.pc = "clarify"          -> DoSendClarification(r, o)
          [] r0.pc = "resolve"          -> DoResolve(r, inp)
          [] r0.pc = "not_found"        -> DoSendNotFound(r, o)
          [] r0.pc = "check_permission" -> DoCheckBotPermission(r, inp)
          [] r0.pc = "no_permission"    -> DoSendPermissionError(r, inp, o)
          [] r0.pc = "status"           -> DoSendStatus(r, inp, o)
          [] r0.pc = "fetch"            -> DoFetch(r, inp, o)
          [] r0.pc = "no_messages"      -> DoEditNoMessages(r, inp, o)
          [] r0.pc = "announce"         -> DoEditSummarizing(r, inp, o)
          [] r0.pc = "summarize"        -> DoSummarize(r, inp, o)
          [] r0.pc = "report_error"     -> DoEditError(r, o)
          [] r0.pc = "delete_status"    -> DoDeleteStatus(r, inp, o)
          [] r0.pc = "deliver"          -> DoDeliver(r, o)
          [] r0.pc = "handle_forbidden" -> DoHandleForbidden(r, o)
          [] r0.pc = "handle_error"     -> DoHandleError(r, o)
          [] OTHER                      -> r0

(***************************************************************************)
(* The embed-building code of the Deepseek variant on its own: every text  *)
(* of at most MaxRenderLen characters, under every size limit up to        *)
(* MaxSizeLimit, for requests with and without deep, hours and limit.      *)
(* chunks holds the embeds built.                                          *)
(***************************************************************************)
RenderInputs == UNION {[1..n -> ChunkAlphabet] : n \in 0..MaxRenderLen}

\* the parsed requests the embeds are built for
RenderRequests ==
    [channel : {Some(<<"a">>)}, limit : {None, Some(9)},
     hours : {None, Some(7)}, deep : BOOLEAN]

\* len(messages) of the run the embeds are built in
RenderCount == 2

InitRender ==
    /\ variant = "deepseek"
    /\ content = <<>>
    /\ parsed \in {Some(p) : p \in RenderRequests}
    /\ summary \in RenderInputs
    /\ sizeLimit \in 1..MaxSizeLimit
    /\ chunks = <<>>
    /\ pc = "render_call"
    /\ ResolverAtRest
    /\ HandlerAtRest

\* the code of on_message from "if len(summary) <= MAX_EMBED_LENGTH" on, the
\* sends left out
RenderCall ==
    /\ pc = "render_call"
    /\ chunks' = RenderEmbeds(variant, parsed[1], parsed[1].channel[1],
                              GuildName(1), RenderCount, summary, sizeLimit)
    /\ pc' = "render_return"
    /\ UNCHANGED <<variant, content, parsed, summary, sizeLimit,
                   resolverVars, handlerVars>>

NextRender == RenderCall

SpecRender == InitRender /\ [][NextRender]_vars

(***************************************************************************)
(* on_message run on one event: every platform of at most MaxRunChannels   *)
(* channels, every author, DM or not, one request text of Requests.  Each  *)
(* action is one step of the handler.                                      *)
(***************************************************************************)
Requests ==
    { <<"h", "e", "l", "p">>,
      <<"M", "y", " ", "S", "e", "r", "v", "e", "r", "s">>,
      <<"c", "h", "a", "n", "n", "e", "l", "s">>,
      <<" ", "L", "i", "s", "t", " ", "c", "h", "a", "n", "n", "e", "l", "s",
        " ", "G", "1">>,
      <<"h", "i">>,
      <<"#", "a">>,
      <<"d", "e", "e", "p", " ", "#", "b", " ", "7", "h">>,
      <<"#", "c", " ", "9">> }

\* the event and the platform the handler runs on
Inp ==
    [variant |-> variant, author |-> author, is_dm |-> is_dm,
     content |-> content, guilds |-> guilds]

InitEvent ==
    /\ variant \in Variants
    /\ content \in Requests
    /\ guilds \in Worlds(MaxRunChannels)
    /\ author \in Users \cup {Bot}
    /\ is_dm \in BOOLEAN
    /\ run = InitRun
    /\ pc = "received"
    /\ parsed = None
    /\ query = None
    /\ channel = None
    /\ ChunkerAtRest

Init == InitEvent /\ shadow = IdleRun

\* what a step of on_message leaves alone
Frame ==
    /\ pc' = run'.pc
    /\ UNCHANGED <<variant, content, parsed, chunkerVars, resolverVars,
                   is_dm, shadow>>

Dispatch ==
    /\ run.pc = "received"
    /\ run' = DoDispatch(Logged(run), Inp)
    /\ Frame

SendHelp ==
    /\ run.pc = "help"
    /\ \E o \in OutcomesAt("help") : run' = DoSendHelp(Logged(run), o)
    /\ Frame

ListUserServers ==
    /\ run.pc = "servers"
    /\ \E o \in OutcomesAt("servers") : run' = DoListUserServers(Logged(run), Inp, o)
    /\ Frame

ListServerChannels ==
    /\ run.pc = "channels"
    /\ \E o \in OutcomesAt("channels") : run' = DoListServerChannels(Logged(run), Inp, o)
    /\ Frame

Parse ==
    /\ run.pc = "parse"
    /\ run' = DoParse(Logged(run), Inp)
    /\ Frame

SendClarification ==
    /\ run.pc = "clarify"
    /\ \E o \in OutcomesAt("clarify") : run' = DoSendClarification(Logged(run), o)
    /\ Frame

Resolve ==
    /\ run.pc = "resolve"
    /\ run' = DoResolve(Logged(run), Inp)
    /\ Frame

SendNotFound ==
    /\ run.pc = "not_found"
    /\ \E o \in OutcomesAt("not_found") : run' = DoSendNotFound(Logged(run), o)
    /\ Frame

CheckBotPermission ==
    /\ run.pc = "check_permission"
    /\ run' = DoCheckBotPermission(Logged(run), Inp)
    /\ Frame

SendPermissionError ==
    /\ run.pc = "no_permission"
    /\ \E o \in OutcomesAt("no_permission") : run' = DoSendPermissionError(Logged(run), Inp, o)
    /\ Frame

SendStatus ==
    /\ run.pc = "status"
    /\ \E o \in OutcomesAt("status") : run' = DoSendStatus(Logged(run), Inp, o)
    /\ Frame

Fetch ==
    /\ run.pc = "fetch"
    /\ \E o \in OutcomesAt("fetch") : run' = DoFetch(Logged(run), Inp, o)
    /\ Frame

EditNoMessages ==
    /\ run.pc = "no_messages"
    /\ \E o \in OutcomesAt("no_messages") : run' = DoEditNoMessages(Logged(run), Inp, o)
    /\ Frame

EditSummarizing ==
    /\ run.pc = "announce"
    /\ \E o \in OutcomesAt("announce") : run' = DoEditSummarizing(Logged(run), Inp, o)
    /\ Frame

Summarize ==
    /\ run.pc = "summarize"
    /\ \E o \in OutcomesAt("summarize") : run' = DoSummarize(Logged(run), Inp, o)
    /\ Frame

EditError ==
    /\ run.pc = "report_error"
    /\ \E o \in OutcomesAt("report_error") : run' = DoEditError(Logged(run), o)
    /\ Frame

DeleteStatus ==
    /\ run.pc = "delete_status"
    /\ \E o \in OutcomesAt("delete_status") : run' = DoDeleteStatus(Logged(run), Inp, o)
    /\ Frame

Deliver ==
    /\ run.pc = "deliver"
    /\ \E o \in OutcomesAt("deliver") : run' = DoDeliver(Logged(run), o)
    /\ Frame

HandleForbidden ==
    /\ run.pc = "handle_forbidden"
    /\ \E o \in OutcomesAt("handle_forbidden") : run' = DoHandleForbidden(Logged(run), o)
    /\ Frame

HandleError ==
    /\ run.pc = "handle_error"
    /\ \E o \in OutcomesAt("handle_error") : run' = DoHandleError(Logged(run), o)
    /\ Frame

Next ==
    \/ Dispatch
    \/ SendHelp
    \/ ListUserServers
    \/ ListServerChannels
    \/ Parse
    \/ SendClarification
    \/ Resolve
    \/ SendNotFound
    \/ CheckBotPermission
    \/ SendPermissionError
    \/ SendStatus
    \/ Fetch
    \/ EditNoMessages
    \/ EditSummarizing
    \/ Summarize
    \/ EditError
    \/ DeleteStatus
    \/ Deliver
    \/ HandleForbidden
    \/ HandleError

Spec == Init /\ [][Next]_vars

(***************************************************************************)
(* on_message of the Deepseek variant run on one request for the channel   *)
(* "a", with a language model that returns long texts: as long as the      *)
(* embed size limit, shorter by one, and longer by up to LongExcess.       *)
(***************************************************************************)
\* a text of n characters with a blank line after the first two
LongText(n) == [i \in 1..n |-> IF i \in {3, 4} THEN "\n" ELSE "x"]

LongLlmOutcomes ==
    {[raises |-> "no", text |-> LongText(n)] :
        n \in (MAX_EMBED_LENGTH - 1)..(MAX_EMBED_LENGTH + LongExcess)}
        \cup {[raises |-> "Exception", text |-> <<>>]}

InitLong ==
    /\ variant = "deepseek"
    /\ content = <<"#", "a">>
    /\ guilds \in Worlds(MaxRunChannels)
    /\ author \in Users
    /\ is_dm = TRUE
    /\ run = InitRun
    /\ shadow = IdleRun
    /\ pc = "received"
    /\ parsed = None
    /\ query = None
    /\ channel = None
    /\ ChunkerAtRest

\* Summarize with the language model that returns long texts
SummarizeLong ==
    /\ run.pc = "summarize"
    /\ \E l \in LongLlmOutcomes :
          run' = DoSummarize(Logged(run), Inp, [NoOutcome EXCEPT !.llm = l])
    /\ Frame

NextLong ==
    \/ Dispatch
    \/ Parse
    \/ Resolve
    \/ SendNotFound
    \/ CheckBotPermission
    \/ SendPermissionError
    \/ SendStatus
    \/ Fetch
    \/ EditNoMessages
    \/ EditSummarizing
    \/ SummarizeLong
    \/ EditError
    \/ DeleteStatus
    \/ Deliver
    \/ HandleForbidden
    \/ HandleError

SpecLong == InitLong /\ [][NextLong]_vars

(***************************************************************************)
(* Two runs of on_message on the same event, side by side: run on the      *)
(* platform guilds, shadow on the platform that is left when every channel *)
(* the requester cannot read is taken away.  Both get the same outcome     *)
(* from the environment at every step.                                     *)
(***************************************************************************)
\* the platform without the channels user cannot read: those of a guild the
\* user is not a member of, and those the user lacks read_messages on
Visible(gs, user) ==
    [g \in 1..Len(gs) |->
        LET Readable(ch) == user \in gs[g].members /\ user \in ch.read_messages
        IN  [gs[g] EXCEPT !.text_channels = SelectSeq(@, Readable)]]

InitPair == InitEvent /\ shadow = InitRun

BothStep ==
    /\ run.pc # "done" \/ shadow.pc # "done"
    /\ \E o \in OutcomesAt(run.pc) :
          /\ run' = Advance(run, Inp, o)
          /\ shadow' = Advance(shadow,
                               [Inp EXCEPT !.guilds = Visible(guilds, author)], o)
    /\ pc' = run'.pc
    /\ UNCHANGED <<variant, content, parsed, chunkerVars, resolverVars, is_dm>>

NextPair == BothStep

SpecPair == InitPair /\ [][NextPair]_vars

(***************************************************************************)
(* Claims about parse_user_request, checked under SpecParse.               *)
(***************************************************************************)
ParseReturned == pc = "parse_return"

\* C1: in both variants the limit returned by parse_user_request is None or
\* an integer n with 5 <= n <= 500.
C1_LimitNoneOrInRange ==
    ParseReturned =>
        \/ parsed[1].limit = None
        \/ (parsed[1].limit[1] >= 5 /\ parsed[1].limit[1] <= 500)

\* every digit run of s is followed, after optional whitespace, by an "h"
EveryDigitRunIsHours(s) ==
    \A i \in 1..Len(s) :
        (s[i] \in DigitSet /\ (i = 1 \/ s[i - 1] \notin DigitSet))
            => ~NotFollowedByH(s, i + RunLen(s, i, DigitSet))

\* C2: in the Deepseek variant a text whose digit runs are all followed
\* (after optional whitespace) by an "h", such as "24h" or "12h 48h", yields
\* limit = None: digits of an hours expression never become the limit.
C2_HoursDigitsNeverLimit ==
    (ParseReturned /\ variant = "deepseek"
        /\ EveryDigitRunIsHours(Strip(Lower(content))))
        => parsed[1].limit = None

(***************************************************************************)
(* Claims about the embed-splitting code, checked under SpecChunk.         *)
(***************************************************************************)
ChunkReturned == pc = "chunk_return"

\* the paragraphs of the chunk bodies, each body split on the blank line
RECURSIVE ParagraphsOfBodies(_)
ParagraphsOfBodies(cs) ==
    IF cs = <<>> THEN <<>>
    ELSE SplitParagraphs(Head(cs).body) \o ParagraphsOfBodies(Tail(cs))

\* C9: for every text longer than sizeLimit, the chunk bodies, each split on
\* the blank line and concatenated in order, are exactly the paragraphs of
\* the text.
C9_ChunksRoundTrip ==
    (ChunkReturned /\ Len(summary) > sizeLimit)
        => ParagraphsOfBodies(chunks) = SplitParagraphs(summary)

\* C10: every chunk body has length <= sizeLimit, except a chunk made of
\* exactly one paragraph that is itself longer than sizeLimit.
C10_ChunkSizeBound ==
    ChunkReturned =>
        \A k \in 1..Len(chunks) :
            \/ Len(chunks[k].body) <= sizeLimit
            \/ (Len(chunks[k].paras) = 1 /\ Len(chunks[k].paras[1]) > sizeLimit)

\* C10 witness: a text longer than sizeLimit was split into several chunks,
\* one of them holding two or more non-empty paragraphs
C10_Witness ==
    /\ ChunkReturned
    /\ Len(summary) > sizeLimit
    /\ Len(chunks) >= 2
    /\ \E k \in 1..Len(chunks) :
          /\ Len(chunks[k].paras) >= 2
          /\ \A j \in 1..Len(chunks[k].paras) : chunks[k].paras[j] # <<>>

(***************************************************************************)
(* Claims about the resolvers, checked under SpecResolve.                  *)
(***************************************************************************)
ResolveReturned == pc = "resolve_return"

\* C3: a resolver returns None or a channel of a server the requester is a
\* member of and on which the requester holds read_messages.
C3_ResolvedChannelReadable ==
    (ResolveReturned /\ channel # None) =>
        /\ author \in guilds[channel[1].guild].members
        /\ author \in ChannelAt(guilds, channel[1]).read_messages

\* C3 witness: find_channel_in_guilds returned a channel after passing over
\* an earlier channel of the same name that the requester may not read
C3_Witness ==
    /\ ResolveReturned
    /\ query[1].by = "name"
    /\ channel # None
    /\ \E g \in 1..channel[1].guild :
          \E i \in 1..Len(guilds[g].text_channels) :
              /\ g < channel[1].guild \/ i < channel[1].index
              /\ Lower(guilds[g].text_channels[i].name)
                    = Lower(ChannelAt(guilds, channel[1]).name)
              /\ \/ author \notin guilds[g].members
                 \/ author \notin guilds[g].text_channels[i].read_messages

(***************************************************************************)
(* Claims about on_message, checked under Spec and (C4) under SpecPair.    *)
(***************************************************************************)
RunDone == run.pc = "done"

\* the channels of the platform whose name is the one the request asks for
\* and that the requester cannot read
UnreadableNamesakes ==
    {h \in [guild : 1..Len(guilds), index : 1..MaxChannels + 1] :
        /\ h.index <= Len(guilds[h.guild].text_channels)
        /\ run.parsed # None
        /\ TruthyText(run.parsed[1].channel)
        /\ Lower(ChannelAt(guilds, h).name)
              = Lower(LStripHash(Strip(run.parsed[1].channel[1])))
        /\ \/ author \notin guilds[h.guild].members
           \/ author \notin ChannelAt(guilds, h).read_messages}

\* C4: non-disclosure.  The calls on_message makes on the requester's DM
\* channel are the same, message for message, on a platform and on the
\* platform without the channels the requester cannot read; so two platforms
\* that differ only in such channels give the same user-visible messages.
C4_NonDisclosure == run.outbox = shadow.outbox

\* C4 witness: a request for a channel that exists but that the requester
\* cannot read has been answered with the not-found message
C4_Witness ==
    /\ RunDone
    /\ UnreadableNamesakes # {}
    /\ guilds # Visible(guilds, author)
    /\ Len(run.outbox) = 1
    /\ run.outbox[1].kind = "not_found"

\* the bot holds read_message_history on the resolved channel
BotMayReadResolved ==
    /\ run.channel # None
    /\ Bot \in ChannelAt(guilds, run.channel[1]).read_message_history

\* C5: fetch_messages is called only when the bot holds read_message_history
\* on the resolved channel, and only after the permission test that directly
\* follows the resolution; when the bot lacks the permission the run ends
\* with the permission error naming the channel, and fetch_messages is never
\* called.
C5_FetchOnlyAfterBotPermission ==
    /\ run.fetch_calls > 0 => BotMayReadResolved
    /\ \A i \in 1..Len(run.steps) :
          run.steps[i] = "fetch" =>
              \E j \in 2..(i - 1) :
                  run.steps[j] = "check_permission" /\ run.steps[j - 1] = "resolve"
    /\ (run.channel # None /\ ~BotMayReadResolved) => run.fetch_calls = 0
    /\ (RunDone /\ run.channel # None /\ ~BotMayReadResolved) =>
          run.outbox = <<[BlankMsg EXCEPT
                            !.kind = "no_permission", !.to = "dm",
                            !.channel = ChannelAt(guilds, run.channel[1]).name]>>

\* C5 witness: a channel was resolved on which the bot lacks the permission,
\* and the run has ended
C5_Witness ==
    /\ RunDone
    /\ run.channel # None
    /\ ~BotMayReadResolved
    /\ run.outbox # <<>>

\* fetch_messages returned, and returned no message
FetchReturnedEmpty == run.fetched /\ run.messages = <<>>

\* the last call made on the DM channel
LastSent == run.outbox[Len(run.outbox)]

\* C6 as stated: when fetch_messages returns no message, the summarizer is
\* never called and the run ends with the no-messages message.
C6_EmptyFetchEndsWithNoMessages ==
    FetchReturnedEmpty =>
        /\ run.summarize_calls = 0
        /\ RunDone => LastSent.kind = "no_messages"

\* C6 amended: when fetch_messages returns no message, the summarizer is never
\* called and the status message is edited to the no-messages message; the run
\* ends with that edit unless the edit itself raises, and then the except
\* clause for the exception edits the status message once more, to an error.
C6_EmptyFetchNoSummarizer ==
    FetchReturnedEmpty =>
        /\ run.summarize_calls = 0
        /\ RunDone =>
              \/ /\ run.caught = ""
                 /\ LastSent.op = "edit" /\ LastSent.kind = "no_messages"
              \/ /\ run.caught # ""
                 /\ Len(run.outbox) = 3
                 /\ run.outbox[2].op = "edit" /\ run.outbox[2].kind = "no_messages"
                 /\ LastSent.op = "edit"
                 /\ LastSent.kind = (IF run.caught = "Forbidden"
                                     THEN "forbidden" ELSE "error")

\* C6 witness: a request with a time window found only messages of bots, and
\* the run has ended with the no-messages message
C6_Witness ==
    /\ RunDone
    /\ FetchReturnedEmpty
    /\ run.caught = ""
    /\ Truthy(run.parsed[1].hours)
    /\ LastSent.kind = "no_messages"
    /\ LastSent.hours = run.parsed[1].hours

\* C7: in both variants, when the language-model call raises, the run ends
\* with an error message shown and no summary card delivered.
C7_LlmErrorEndsFailed ==
    (RunDone /\ run.llm_raised) =>
        /\ \A k \in 1..Len(run.outbox) :
              run.outbox[k].kind \notin {"summary", "continued"}
        /\ \E k \in 1..Len(run.outbox) :
              run.outbox[k].kind \in {"text", "error", "forbidden"}

\* the steps that make the collaborator calls of a summary run: sending,
\* editing and deleting the status message, fetching, summarizing, delivering
PipelineCalls ==
    {"status", "fetch", "no_messages", "announce", "summarize", "report_error",
     "delete_status", "deliver", "handle_forbidden", "handle_error"}

\* C8: no exception raised by a collaborator call of a summary run leaves
\* on_message.
C8_NoCollaboratorErrorEscapes ==
    run.escaped # None => run.escaped[1].at \notin PipelineCalls

(***************************************************************************)
(* More claims about the embed-splitting code, checked under SpecChunk.    *)
(***************************************************************************)
\* the length of the paragraphs ps joined by the blank line
JoinedLen(ps) == Len(Join(ps, Blank))

\* C16: while splitting a text longer than sizeLimit, a chunk is closed only
\* when appending the next paragraph would make its body (its paragraphs
\* joined by the blank line) longer than sizeLimit: paragraphs whose joined
\* body has length <= sizeLimit end up in the same chunk.
C16_GreedyUsesLessOrEqual ==
    (ChunkReturned /\ Len(summary) > sizeLimit) =>
        \A k \in 1..(Len(chunks) - 1) :
            JoinedLen(Append(chunks[k].paras, chunks[k + 1].paras[1])) > sizeLimit

(***************************************************************************)
(* Claims about the embed-building code, checked under SpecRender.         *)
(***************************************************************************)
RenderReturned == pc = "render_return"

\* C11: of the embeds built by the multi-chunk path (the text is longer than
\* sizeLimit), also when there is only one, the last carries the count of
\* messages and no other does; the first carries the title and the time
\* range, and no other does.
C11_TrailingMetadataOnLastChunk ==
    (RenderReturned /\ Len(summary) > sizeLimit) =>
        \A i \in 1..Len(chunks) :
            /\ (chunks[i].count = Some(RenderCount)) <=> (i = Len(chunks))
            /\ (chunks[i].count = None) <=> (i # Len(chunks))
            /\ (chunks[i].kind = "summary") <=> (i = 1)
            /\ (i = 1) => chunks[i].hours = HoursShown(parsed[1])
            /\ (i # 1) => chunks[i].hours = None

(***************************************************************************)
(* Claims about long generated texts, checked under SpecLong.              *)
(***************************************************************************)
\* the embeds of the run were built by the multi-chunk path
MultiChunkPathTaken == run.embeds # <<>> /\ run.embeds[1].part = 1

\* C12: the length above which summarize_with_deepseek cuts a generated text
\* is strictly larger than the embed size limit, and a generated text longer
\* than the embed size limit but not longer than that ceiling is the summary
\* of the run, uncut, and its embeds are built by the multi-chunk path.
C12_CeilingAboveSizeLimit ==
    /\ SUMMARY_CEILING > MAX_EMBED_LENGTH
    /\ (/\ run.status_msg = "deleted"
        /\ Len(run.generated) > MAX_EMBED_LENGTH
        /\ Len(run.generated) <= SUMMARY_CEILING)
           => (run.summary = run.generated /\ MultiChunkPathTaken)

\* whatever the language model returns, the summary of a run is never longer
\* than the embed size limit, and the multi-chunk path is never taken
MultiChunkPathNeverTaken ==
    Len(run.summary) <= MAX_EMBED_LENGTH /\ ~MultiChunkPathTaken

(***************************************************************************)
(* More claims about on_message, checked under Spec.                       *)
(***************************************************************************)
\* C13: every send, edit and delete on_message makes is in the DM channel
\* the event arrived on; an event that arrived in a server channel, or whose
\* author is the bot itself, causes no send, edit or delete, no resolution,
\* no fetch and no summarizer call.
C13_EverythingStaysInDMs ==
    /\ \A k \in 1..Len(run.outbox) : run.outbox[k].to = "dm" /\ is_dm
    /\ (author = Bot \/ ~is_dm) =>
          /\ run.outbox = <<>>
          /\ run.fetch_calls = 0
          /\ run.summarize_calls = 0
          /\ \A i \in 1..Len(run.steps) : run.steps[i] = "received"

\* C13 witness: a user's request for a channel the user can read arrived in a
\* server channel, and the run has ended
C13_Witness ==
    /\ RunDone
    /\ ~is_dm
    /\ author \in Users
    /\ content = <<"#", "a">>
    /\ find_channel_in_guilds(guilds, <<"a">>, author) # None
    /\ run.outbox = <<>>

(***************************************************************************)
(* More claims about parse_user_request, checked under SpecParseWords.     *)
(***************************************************************************)
\* the request text as parse_user_request reads it
ContentLower == Strip(Lower(content))

\* the channel C14 describes: the first word outside the skip-set after the
\* FIRST occurrence of the first keyword, in list order, that s contains
FirstOccurrenceChannel(s) ==
    LET present == {k \in 1..Len(keywords) : Contains(s, keywords[k])}
    IN  IF present = {} THEN None
        ELSE LET keyword == keywords[Min(present)]
                 after == From(s, Min(Occurrences(s, keyword)) + Len(keyword))
                 words == Words(after)
                 usable == {j \in 1..Len(words) : words[j] \notin Range(skip_words)}
             IN  IF usable = {} THEN None ELSE Some(words[Min(usable)])

\* C14: for a text with no #channel, the channel returned is the first word
\* outside the skip-set after the first occurrence of the first keyword (in
\* list order) the text contains, None if there is no such word, also when
\* the keyword occurs more than once.
C14_FallbackAfterFirstOccurrence ==
    (ParseReturned /\ ChannelSearch(ContentLower) = None)
        => parsed[1].channel = FirstOccurrenceChannel(ContentLower)

\* the hours of the canonical phrases, the first group found winning: 'last
\* hour', then 'last day' / 'past day' / '24 hours', then 'last week' /
\* 'past week'
PhraseWindow(s) ==
    IF Contains(s, <<"l", "a", "s", "t", " ", "h", "o", "u", "r">>) THEN Some(1)
    ELSE IF \E w \in { <<"l", "a", "s", "t", " ", "d", "a", "y">>,
                       <<"p", "a", "s", "t", " ", "d", "a", "y">>,
                       <<"2", "4", " ", "h", "o", "u", "r", "s">> } : Contains(s, w)
    THEN Some(24)
    ELSE IF \E w \in { <<"l", "a", "s", "t", " ", "w", "e", "e", "k">>,
                       <<"p", "a", "s", "t", " ", "w", "e", "e", "k">> } : Contains(s, w)
    THEN Some(168)
    ELSE None

\* C15: in the Deepseek variant, for a text with a digits+h match, hours is
\* the integer of the first such match (0 included) whatever phrases the text
\* also contains; the phrases set hours only for a text without such a match.
C15_HoursMatchBeforePhrases ==
    (ParseReturned /\ variant = "deepseek") =>
        IF HoursSearch(ContentLower) # None
        THEN parsed[1].hours = Some(ToInt(HoursSearch(ContentLower)[1].group1))
        ELSE parsed[1].hours = PhraseWindow(ContentLower)

\* the positions of the name of the first #channel of s
ChannelNameSpan(s) ==
    LET at == {i \in 1..Len(s) : s[i] = "#" /\ RunLen(s, i + 1, WordSet) >= 1}
    IN  IF at = {} THEN {}
        ELSE (Min(at) + 1)..(Min(at) + RunLen(s, Min(at) + 1, WordSet))

\* s names a #channel with digits in its name, and has no other digit and no
\* time phrase
OnlyChannelDigits(s) ==
    /\ \E i \in ChannelNameSpan(s) : s[i] \in DigitSet
    /\ \A i \in 1..Len(s) : s[i] \in DigitSet => i \in ChannelNameSpan(s)
    /\ PhraseWindow(s) = None

\* C19: in the Deepseek variant a text that names a #channel with digits in
\* its name, and has no other digit and no time phrase, gives limit = None
\* and hours = None.
C19_ChannelDigitsNeverLimitOrHours ==
    (ParseReturned /\ variant = "deepseek" /\ OnlyChannelDigits(ContentLower))
        => (parsed[1].limit = None /\ parsed[1].hours = None)

\* the place of a step in the order parse, resolve, check bot permission,
\* fetch, summarize, chunk, deliver (the embeds are built, chunked if need
\* be, in the step that deletes the status message); 0 for any other step
StepRank(step) ==
    CASE step = "parse" -> 1
      [] step = "resolve" -> 2
      [] step = "check_permission" -> 3
      [] step = "fetch" -> 4
      [] step = "summarize" -> 5
      [] step = "delete_status" -> 6
      [] step = "deliver" -> 7
      [] OTHER -> 0

\* the steps that report a failure and end the run
FailureExits ==
    {"clarify", "not_found", "no_permission", "no_messages", "report_error",
     "handle_forbidden", "handle_error"}

\* C17: in every run the steps parse, resolve, check bot permission, fetch,
\* summarize, chunk, deliver happen only in that order, none before the one
\* ahead of it has happened and none twice (deliver sends the embeds one
\* after the other); resolve, fetch and summarize are called at most once;
\* after a failure exit none of these steps happens.
C17_StepsOnlyForward ==
    /\ \A i, j \in 1..Len(run.steps) :
          (i < j /\ StepRank(run.steps[i]) > 0 /\ StepRank(run.steps[j]) > 0) =>
              \/ StepRank(run.steps[i]) < StepRank(run.steps[j])
              \/ run.steps[i] = "deliver" /\ run.steps[j] = "deliver"
    /\ \A j \in 1..Len(run.steps) :
          StepRank(run.steps[j]) > 1 =>
              \E i \in 1..(j - 1) :
                  StepRank(run.steps[i]) = StepRank(run.steps[j]) - 1
    /\ run.fetch_calls <= 1
    /\ run.summarize_calls <= 1
    /\ \A i, j \in 1..Len(run.steps) :
          (i < j /\ run.steps[i] \in FailureExits) => StepRank(run.steps[j]) = 0

\* C17 witness: a run that went through every step and delivered a summary
C17_Witness ==
    /\ RunDone
    /\ run.delivered = 1
    /\ run.caught = ""
    /\ \A k \in 1..7 : \E i \in 1..Len(run.steps) : StepRank(run.steps[i]) = k

\* C18: in the Deepseek variant, whenever the fetch returned at least one
\* message and the language-model call returned a text without raising, a
\* finished run that met no other failure has delivered that text (cut only
\* if over the ceiling) to the requester as the summary card(s).
C18_ReturnedTextIsDelivered ==
    ( /\ variant = "deepseek"
      /\ RunDone
      /\ run.fetched
      /\ run.messages # <<>>
      /\ run.summarize_calls = 1
      /\ ~run.llm_raised
      /\ run.caught = ""
      /\ run.escaped = None )
    => /\ run.delivered >= 1
       /\ \E k \in 1..Len(run.outbox) :
             /\ run.outbox[k].kind = "summary"
             /\ run.outbox[k].to = run.origin
             /\ run.outbox[k].text = run.summary

=====
